---- MODULE Spec2Model ----
(***************************************************************************)
(* The call-session audio bridge of src/backend/app.py (handle_media_stream *)
(* with its two relay loops receive_from_twilio and send_to_twilio), the    *)
(* price extractor of src/services/grok_llm.py and the job endpoints of     *)
(* src/main.py (start_job, complete_job).                                   *)
(***************************************************************************)
EXTENDS Integers, Sequences, FiniteSets, TLC

\* ---------------------------------------------------------------- bounds
MaxEvents == 3
MaxContent == 1
MaxTurns == 3
MaxAnswer == 2
MaxCalls == 3
MaxFound == 2

\* ------------------------------------------------------- input alphabets
None == "None"
\* Optional[float]: None is the empty sequence, a price n is <<n>>
NoPrice == <<>>
Price(n) == <<n>>
\* provider = None, as a row: no row of the table has id 0
NoProvider == [id |-> 0]
StreamSids == {"MZ1", "MZ2"}
\* rows of the providers table (the Context Store) and the keys a start
\* event may carry; key 3 has no row
ProviderRows == {1, 2}
ProviderKeys == {1, 2, 3}
Texts == {"", "hi", "ok"}
ContentTypes == {"text", "audio"}
ContentItems == [type : ContentTypes, text : Texts]
Contents == UNION {[1..n -> ContentItems] : n \in 0..MaxContent}
\* The extractor's transcripts: up to MaxTurns entries of one word each, the
\* speakers alternating, so that the joined text ranges over every word
\* sequence of that length. "$150" is the word [kind "$num", n 150], "150"
\* is [kind "num", n 150], every other word has n = 0.
Prices == {150, 175}
Words == {"dollars", "agreed", "on", "for", "the", "price", "is"}
Tokens == [kind : {"$num", "num"}, n : Prices] \cup [kind : Words, n : {0}]
\* The inference engine's answer after strip().lower(), as words: a number,
\* "none" (standing for the negative words: none, no, not), "now" (standing
\* for the other words that contain the letters "no": now, know, nominal) or
\* "price" (standing for every other word).
AnswerWords == [kind : {"num"}, n : Prices] \cup [kind : {"none", "now", "price"}, n : {0}]
Answers == UNION {[1..n -> AnswerWords] : n \in 0..MaxAnswer}
\* what the inference call does: it raises, or it streams an answer
LlmOutcomes == [raised : {TRUE}, answer : {<<>>}] \cup [raised : {FALSE}, answer : Answers]
ExEntry(i, tok) == [role |-> IF i % 2 = 1 THEN "assistant" ELSE "user", text |-> <<tok>>]

VARIABLES
    pc,          \* position of handle_media_stream
    pcTw,        \* position of receive_from_twilio
    pcAi,        \* position of send_to_twilio
    websocket,   \* telephony socket: "open" | "closed"
    grok_ws,     \* AI-engine socket: "unopened" | "open" | "closed"
    stream_sid,  \* nonlocal stream_sid
    provider,    \* nonlocal provider
    transcript,  \* list of {"role", "text"}
    turnVia,     \* for each entry of transcript, the event type that appended it
    grokSent,    \* messages sent on grok_ws, in order
    twilioSent,  \* messages sent on websocket, in order
    twEvents,    \* telephony messages received so far
    aiEvents,    \* AI-engine messages received so far
    lookupFailed,\* the providers lookup of a start event found no row
    sinkWrites,  \* calls of update_provider_call_status made by the session
    outcomes,    \* calls of extract_negotiated_price made by the session
    stopped,     \* a telephony 'stop' event has been received
    heard,       \* the turns (role, non-empty text) that completion events carried
    aiIgnored,   \* an AI-engine event that matches no branch has been received
    exTranscript,\* extractor: its argument
    exResult,    \* extractor: its return value
    exPc,        \* extractor: "ready" | "returned"
    peer_pcTw,        \* a second, concurrent handle_media_stream: its receive loop
    peer_stream_sid,  \* its nonlocal stream_sid
    peer_provider,    \* its nonlocal provider
    peer_transcript,  \* its transcript list
    peerEvents,       \* messages it has received so far
    jobs_store,       \* src/main.py: jobs_store, job id -> Job
    providerInserts,  \* rows inserted by create_provider, in order
    searches,         \* calls of search_providers, by job id, in order
    response,         \* the last HTTP response of start_job / complete_job
    jobCalls          \* requests handled so far

sessionVars == <<pc, pcTw, pcAi, websocket, grok_ws, stream_sid, provider,
                 transcript, turnVia, grokSent, twilioSent, twEvents,
                 aiEvents, lookupFailed, sinkWrites, outcomes, stopped,
                 heard, aiIgnored>>
extractVars == <<exTranscript, exResult, exPc>>
peerVars == <<peer_pcTw, peer_stream_sid, peer_provider, peer_transcript, peerEvents>>
jobVars == <<jobs_store, providerInserts, searches, response, jobCalls>>
vars == <<pc, pcTw, pcAi, websocket, grok_ws, stream_sid, provider,
          transcript, turnVia, grokSent, twilioSent, twEvents, aiEvents,
          lookupFailed, sinkWrites, outcomes, stopped, heard, aiIgnored,
          exTranscript, exResult,
          exPc, peer_pcTw, peer_stream_sid, peer_provider, peer_transcript,
          peerEvents, jobs_store, providerInserts, searches, response, jobCalls>>

\* ------------------------------------------------------------ transcoder
\* An audio fragment: the frame it came from, its encoding and rate, and the
\* resampler state it was converted with (None: a freshly started filter).
ulaw2lin(frame) == [id |-> frame.id, enc |-> "lin16", rate |-> frame.rate, state |-> frame.state]

lin2ulaw(frame) == [id |-> frame.id, enc |-> "ulaw", rate |-> frame.rate, state |-> frame.state]

\* audioop.ratecv(fragment, 2, 1, inrate, outrate, state) -> (fragment, newstate)
ratecv(frame, inrate, outrate, state) ==
    <<[id |-> frame.id, enc |-> frame.enc, rate |-> outrate, state |-> state], frame.id>>

TwilioFrame(n) == [id |-> n, enc |-> "ulaw", rate |-> 8000, state |-> None]

GrokFrame(n) == [id |-> n, enc |-> "lin16", rate |-> 24000, state |-> None]

\* mulaw 8k -> pcm 24k, as receive_from_twilio does it
TranscodeToGrok(frame) == ratecv(ulaw2lin(frame), 8000, 24000, None)[1]

\* pcm 24k -> mulaw 8k, as send_to_twilio does it
TranscodeToTwilio(frame) == lin2ulaw(ratecv(frame, 24000, 8000, None)[1])

\* ----------------------------------------------------------- transcript
Entry(role, text) == [role |-> role, text |-> text]

\* any(t.get('text') == text and t.get('role') == 'assistant' for t in transcript)
Recorded(tr, text) ==
    \E i \in 1..Len(tr) : tr[i].text = text /\ tr[i].role = "assistant"

\* as AppendDone, with only the content items of type 'text' recognized
RECURSIVE AppendDoneTextOnly(_, _)
AppendDoneTextOnly(tr, content) ==
    IF content = <<>> THEN tr
    ELSE LET t == Head(content).text
             tr2 == IF Head(content).type = "text" /\ t # "" /\ ~Recorded(tr, t)
                    THEN Append(tr, Entry("assistant", t)) ELSE tr
         IN AppendDoneTextOnly(tr2, Tail(content))

\* the content loop of the response.done branch: append unless empty or recorded
RECURSIVE AppendDone(_, _)
AppendDone(tr, content) ==
    IF content = <<>> THEN tr
    ELSE LET t == Head(content).text
             tr2 == IF t # "" /\ ~Recorded(tr, t)
                    THEN Append(tr, Entry("assistant", t)) ELSE tr
         IN AppendDone(tr2, Tail(content))

\* as AppendCreated, with each new turn inserted at the head of the list
RECURSIVE AppendCreatedAtHead(_, _)
AppendCreatedAtHead(tr, content) ==
    IF content = <<>> THEN tr
    ELSE LET t == Head(content).text
             tr2 == IF t # "" THEN <<Entry("assistant", t)>> \o tr ELSE tr
         IN AppendCreatedAtHead(tr2, Tail(content))

\* the content loop of the conversation.item.created branch: append unless empty
RECURSIVE AppendCreated(_, _)
AppendCreated(tr, content) ==
    IF content = <<>> THEN tr
    ELSE LET t == Head(content).text
             tr2 == IF t # "" THEN Append(tr, Entry("assistant", t)) ELSE tr
         IN AppendCreated(tr2, Tail(content))

\* the turns a completion event carries: one for each non-empty text
Spoken(role, content) ==
    {Entry(role, content[k].text) : k \in {n \in 1..Len(content) : content[n].text # ""}}

\* ------------------------------------------------------------------ Init
\* a second session before its first event, and the job service at startup
PeerIdle ==
    /\ peer_pcTw = "recv"
    /\ peer_stream_sid = None
    /\ peer_provider = NoProvider
    /\ peer_transcript = <<>>
    /\ peerEvents = 0

JobsIdle ==
    /\ jobs_store = <<>>
    /\ providerInserts = <<>>
    /\ searches = <<>>
    /\ response = [op |-> "none", status |-> 0, job_id |-> None]
    /\ jobCalls = 0

Init ==
    /\ pc = "connect"
    /\ pcTw = "idle"
    /\ pcAi = "idle"
    /\ websocket = "open"
    /\ grok_ws = "unopened"
    /\ stream_sid = None
    /\ provider = NoProvider
    /\ transcript = <<>>
    /\ turnVia = <<>>
    /\ grokSent = <<>>
    /\ twilioSent = <<>>
    /\ twEvents = 0
    /\ aiEvents = 0
    /\ lookupFailed = FALSE
    /\ sinkWrites = <<>>
    /\ outcomes = <<>>
    /\ stopped = FALSE
    /\ heard = {}
    /\ aiIgnored = FALSE
    /\ exTranscript = <<>>
    /\ exResult = NoPrice
    /\ exPc = "idle"
    /\ PeerIdle
    /\ JobsIdle

\* ------------------------------------------------- handle_media_stream
\* generate_prompt(provider): the instruction string built from the row
generate_prompt(row) == [prompt_for |-> row.id]

\* websockets.connect(GROK_URL, ...) succeeds; the gather starts both loops
ConnectOk ==
    /\ pc = "connect"
    /\ pc' = "gather"
    /\ grok_ws' = "open"
    /\ pcTw' = "recv"
    /\ pcAi' = "recv"
    /\ UNCHANGED <<websocket, stream_sid, provider, transcript, turnVia, grokSent,
                   twilioSent, twEvents, aiEvents, lookupFailed, sinkWrites,
                   outcomes, stopped, heard, aiIgnored, extractVars,
                   peerVars, jobVars>>

\* websockets.connect raises: the handler ends with the exception
ConnectFail ==
    /\ pc = "connect"
    /\ pc' = "raised"
    /\ UNCHANGED <<pcTw, pcAi, websocket, grok_ws, stream_sid, provider,
                   transcript, turnVia, grokSent, twilioSent, twEvents, aiEvents,
                   lookupFailed, sinkWrites, outcomes, stopped, heard, aiIgnored, extractVars,
                   peerVars, jobVars>>

\* ------------------------------------------------- receive_from_twilio
TwCanReceive ==
    /\ pcTw = "recv"
    /\ websocket = "open"
    /\ twEvents + aiEvents + peerEvents < MaxEvents

\* event == 'start': bind stream_sid, fetch the row, send session.update
TwStart(sid, key) ==
    /\ TwCanReceive
    /\ twEvents' = twEvents + 1
    /\ stream_sid' = sid
    /\ IF key \in ProviderRows
       THEN /\ provider' = [id |-> key]
            /\ lookupFailed' = lookupFailed
            /\ IF grok_ws = "open"
               THEN /\ grokSent' = Append(grokSent,
                          [type |-> "session.update",
                           body |-> generate_prompt([id |-> key])])
                    /\ pcTw' = "recv"
               ELSE /\ grokSent' = grokSent
                    /\ pcTw' = "done"
       ELSE \* .single().execute() raises: except Exception: pass
            /\ provider' = provider
            /\ lookupFailed' = TRUE
            /\ grokSent' = grokSent
            /\ pcTw' = "done"
    /\ UNCHANGED <<pc, pcAi, websocket, grok_ws, transcript, turnVia, twilioSent,
                   aiEvents, sinkWrites, outcomes, stopped, heard, aiIgnored, extractVars,
                   peerVars, jobVars>>

\* as TwMedia, with each frame sent twice
TwMediaTwice(valid) ==
    /\ TwCanReceive
    /\ twEvents' = twEvents + 1
    /\ grokSent' = IF valid /\ grok_ws = "open"
                   THEN grokSent \o
                        << [type |-> "input_audio_buffer.append",
                            body |-> TranscodeToGrok(TwilioFrame(twEvents + 1))],
                           [type |-> "input_audio_buffer.append",
                            body |-> TranscodeToGrok(TwilioFrame(twEvents + 1))] >>
                   ELSE grokSent
    /\ pcTw' = IF valid /\ grok_ws = "open" THEN "recv" ELSE "done"
    /\ UNCHANGED <<pc, pcAi, websocket, grok_ws, stream_sid, provider,
                   transcript, turnVia, twilioSent, aiEvents, lookupFailed,
                   sinkWrites, outcomes, stopped, heard, aiIgnored, extractVars, peerVars, jobVars>>

\* event == 'media': decode, resample, send input_audio_buffer.append
TwMedia(valid) ==
    /\ TwCanReceive
    /\ twEvents' = twEvents + 1
    /\ IF valid /\ grok_ws = "open"
       THEN /\ grokSent' = Append(grokSent,
                  [type |-> "input_audio_buffer.append",
                   body |-> TranscodeToGrok(TwilioFrame(twEvents + 1))])
            /\ pcTw' = "recv"
       ELSE \* b64decode / grok_ws.send raises: except Exception: pass
            /\ grokSent' = grokSent
            /\ pcTw' = "done"
    /\ UNCHANGED <<pc, pcAi, websocket, grok_ws, stream_sid, provider,
                   transcript, turnVia, twilioSent, aiEvents, lookupFailed, sinkWrites,
                   outcomes, stopped, heard, aiIgnored, extractVars,
                   peerVars, jobVars>>

\* any other event ('connected', 'mark', 'stop'): neither branch is taken
TwOther(event) ==
    /\ TwCanReceive
    /\ event \notin {"start", "media"}
    /\ twEvents' = twEvents + 1
    /\ stopped' = (stopped \/ event = "stop")
    /\ UNCHANGED <<pc, pcTw, pcAi, websocket, grok_ws, stream_sid, provider,
                   transcript, turnVia, grokSent, twilioSent, aiEvents, lookupFailed,
                   sinkWrites, outcomes, heard, aiIgnored, extractVars, peerVars, jobVars>>

\* the telephony socket closes: receive_text raises, the loop ends
TwDisconnect ==
    /\ pcTw = "recv"
    /\ websocket = "open"
    /\ websocket' = "closed"
    /\ pcTw' = "done"
    /\ UNCHANGED <<pc, pcAi, grok_ws, stream_sid, provider, transcript,
                   turnVia, grokSent, twilioSent, twEvents, aiEvents, lookupFailed,
                   sinkWrites, outcomes, stopped, heard, aiIgnored, extractVars,
                   peerVars, jobVars>>

\* ------------------------------------------------------ send_to_twilio
AiCanReceive ==
    /\ pcAi = "recv"
    /\ grok_ws = "open"
    /\ twEvents + aiEvents + peerEvents < MaxEvents

\* a transcript event of type eventType: nothing but the transcript changes
AiKeeps(eventType) ==
    /\ turnVia' = turnVia \o [i \in 1..(Len(transcript') - Len(transcript)) |-> eventType]
    /\ UNCHANGED <<pc, pcTw, pcAi, websocket, grok_ws, stream_sid, provider,
                grokSent, twilioSent, twEvents, lookupFailed, sinkWrites,
                outcomes, stopped, extractVars,
                   peerVars, jobVars>>

\* response.output_audio.delta: resample, encode, send media if stream_sid
AiAudioDelta(valid) ==
    /\ AiCanReceive
    /\ aiEvents' = aiEvents + 1
    /\ IF ~valid
       THEN \* b64decode / ratecv raises: except Exception: pass
            /\ twilioSent' = twilioSent
            /\ pcAi' = "done"
       ELSE IF stream_sid = None
       THEN /\ twilioSent' = twilioSent
            /\ pcAi' = "recv"
       ELSE IF websocket = "open"
       THEN /\ twilioSent' = Append(twilioSent,
                  [event |-> "media", streamSid |-> stream_sid,
                   payload |-> TranscodeToTwilio(GrokFrame(aiEvents + 1))])
            /\ pcAi' = "recv"
       ELSE \* send_json on a closed socket: raises, or the frame is discarded
            /\ twilioSent' = twilioSent
            /\ pcAi' \in {"recv", "done"}
    /\ UNCHANGED <<pc, pcTw, websocket, grok_ws, stream_sid, provider,
                   transcript, turnVia, grokSent, twEvents, lookupFailed, sinkWrites,
                   outcomes, stopped, heard, aiIgnored, extractVars,
                   peerVars, jobVars>>

\* conversation.item.input_audio_transcription.completed
AiUserTranscript(text) ==
    /\ AiCanReceive
    /\ aiEvents' = aiEvents + 1
    /\ transcript' = IF text # "" THEN Append(transcript, Entry("user", text))
                     ELSE transcript
    /\ heard' = heard \cup Spoken("user", <<[type |-> "text", text |-> text]>>)
    /\ aiIgnored' = aiIgnored
    /\ AiKeeps("conversation.item.input_audio_transcription.completed")

\* response.audio_transcript.done
AiAudioTranscriptDone(text) ==
    /\ AiCanReceive
    /\ aiEvents' = aiEvents + 1
    /\ transcript' = IF text # "" THEN Append(transcript, Entry("assistant", text))
                     ELSE transcript
    /\ heard' = heard \cup Spoken("assistant", <<[type |-> "audio", text |-> text]>>)
    /\ aiIgnored' = aiIgnored
    /\ AiKeeps("response.audio_transcript.done")

\* response.text.done
AiTextDone(text) ==
    /\ AiCanReceive
    /\ aiEvents' = aiEvents + 1
    /\ transcript' = IF text # "" THEN Append(transcript, Entry("assistant", text))
                     ELSE transcript
    /\ heard' = heard \cup Spoken("assistant", <<[type |-> "text", text |-> text]>>)
    /\ aiIgnored' = aiIgnored
    /\ AiKeeps("response.text.done")

\* response.done: the content items of the output items of type 'message'
\* (content is the content of the message items, in order)
AiResponseDone(itemType, content) ==
    /\ AiCanReceive
    /\ aiEvents' = aiEvents + 1
    /\ transcript' = IF itemType = "message" THEN AppendDone(transcript, content)
                     ELSE transcript
    /\ heard' = IF itemType = "message"
                THEN heard \cup Spoken("assistant", content) ELSE heard
    /\ aiIgnored' = aiIgnored
    /\ AiKeeps("response.done")

\* conversation.item.created: the content items of an assistant item
AiItemCreated(role, content) ==
    /\ AiCanReceive
    /\ aiEvents' = aiEvents + 1
    /\ transcript' = IF role = "assistant" THEN AppendCreated(transcript, content)
                     ELSE transcript
    /\ heard' = IF role = "assistant"
                THEN heard \cup Spoken("assistant", content) ELSE heard
    /\ aiIgnored' = aiIgnored
    /\ AiKeeps("conversation.item.created")

\* as AiOther, with an event of no known type ending the loop
AiOtherEndsLoop(eventType) ==
    /\ AiCanReceive
    /\ aiEvents' = aiEvents + 1
    /\ aiIgnored' = TRUE
    /\ pcAi' = "done"
    /\ UNCHANGED <<pc, pcTw, websocket, grok_ws, stream_sid, provider,
                   transcript, turnVia, grokSent, twilioSent, twEvents,
                   lookupFailed, sinkWrites, outcomes, stopped, heard,
                   extractVars, peerVars, jobVars>>

\* any other event type (a transcript delta, speech_started, ...): no branch
AiOther(eventType) ==
    /\ AiCanReceive
    /\ aiEvents' = aiEvents + 1
    /\ transcript' = transcript
    /\ heard' = heard
    /\ aiIgnored' = TRUE
    /\ AiKeeps(eventType)

\* as AiClose, with send_to_twilio still waiting on the closed socket
AiCloseLoopStays ==
    /\ pcAi = "recv"
    /\ grok_ws = "open"
    /\ grok_ws' = "closed"
    /\ UNCHANGED <<pc, pcTw, pcAi, websocket, stream_sid, provider, transcript,
                   turnVia, grokSent, twilioSent, twEvents, aiEvents, lookupFailed,
                   sinkWrites, outcomes, stopped, heard, aiIgnored, extractVars,
                   peerVars, jobVars>>

\* the AI-engine socket closes: async for ends, the loop ends
AiClose ==
    /\ pcAi = "recv"
    /\ grok_ws = "open"
    /\ grok_ws' = "closed"
    /\ pcAi' = "done"
    /\ UNCHANGED <<pc, pcTw, websocket, stream_sid, provider, transcript,
                   turnVia, grokSent, twilioSent, twEvents, aiEvents, lookupFailed,
                   sinkWrites, outcomes, stopped, heard, aiIgnored, extractVars,
                   peerVars, jobVars>>

\* ------------------------------------------ after the gather (post-call)
\* asyncio.gather returns once both loops have returned; the async with
\* block is left and closes grok_ws
GatherReturn ==
    /\ pc = "gather"
    /\ pcTw = "done"
    /\ pcAi = "done"
    /\ pc' = "postcall"
    /\ grok_ws' = "closed"
    /\ UNCHANGED <<pcTw, pcAi, websocket, stream_sid, provider, transcript,
                   turnVia, grokSent, twilioSent, twEvents, aiEvents, lookupFailed,
                   sinkWrites, outcomes, stopped, heard, aiIgnored, extractVars,
                   peerVars, jobVars>>

\* the transcript print and the call-ended line provider['service_provider']
PostCall ==
    /\ pc = "postcall"
    /\ pc' = IF provider = NoProvider THEN "raised" ELSE "done"
    /\ UNCHANGED <<pcTw, pcAi, websocket, grok_ws, stream_sid, provider,
                   transcript, turnVia, grokSent, twilioSent, twEvents, aiEvents,
                   lookupFailed, sinkWrites, outcomes, stopped, heard, aiIgnored, extractVars,
                   peerVars, jobVars>>

Next ==
    \/ ConnectOk
    \/ ConnectFail
    \/ \E sid \in StreamSids, key \in ProviderKeys : TwStart(sid, key)
    \/ \E valid \in BOOLEAN : TwMedia(valid)
    \/ \E event \in {"connected", "mark", "stop"} : TwOther(event)
    \/ TwDisconnect
    \/ \E valid \in BOOLEAN : AiAudioDelta(valid)
    \/ \E text \in Texts : AiUserTranscript(text)
    \/ \E text \in Texts : AiAudioTranscriptDone(text)
    \/ \E text \in Texts : AiTextDone(text)
    \/ \E itemType \in {"message", "function_call"}, content \in Contents :
          AiResponseDone(itemType, content)
    \/ \E role \in {"assistant", "user"}, content \in Contents :
          AiItemCreated(role, content)
    \/ \E eventType \in {"response.audio_transcript.delta", "unknown"} :
          AiOther(eventType)
    \/ AiClose
    \/ GatherReturn
    \/ PostCall

Spec == Init /\ [][Next]_vars

\* ---------------------------------------------- _fallback_extract_price
\* " ".join([entry['text'] for entry in transcript])
RECURSIVE JoinTexts(_)
JoinTexts(tr) ==
    IF tr = <<>> THEN <<>> ELSE Head(tr).text \o JoinTexts(Tail(tr))

IsNumber(tok) == tok.kind \in {"$num", "num"}

WordAt(text, i, w) == i <= Len(text) /\ text[i].kind = w

\* the five patterns, in the order of the list; MatchAt(p, text, i): pattern p
\* matches with its captured number being word i of the text
PatternCount == 5

MatchAt(p, text, i) ==
    CASE p = 1 -> text[i].kind = "$num"                      \* \$(\d+\.?\d*)
      [] p = 2 -> IsNumber(text[i]) /\ WordAt(text, i + 1, "dollars")
                                                             \* (\d+\.?\d*)\s*dollars?
      [] p = 3 -> /\ text[i].kind = "num"                    \* agreed\s+on\s+(\d+\.?\d*)
                  /\ i > 2
                  /\ text[i - 2].kind = "agreed"
                  /\ text[i - 1].kind = "on"
      [] p = 4 -> /\ IsNumber(text[i])                       \* (\d+\.?\d*)\s+for\s+the
                  /\ WordAt(text, i + 1, "for")
                  /\ WordAt(text, i + 2, "the")
      [] p = 5 -> /\ text[i].kind = "num"                    \* price\s+is\s+(\d+\.?\d*)
                  /\ i > 2
                  /\ text[i - 2].kind = "price"
                  /\ text[i - 1].kind = "is"

\* re.findall(pattern, full_text, re.IGNORECASE): the captured numbers of the
\* matches at or after word i, in text order
RECURSIVE FindAllFrom(_, _, _)
FindAllFrom(p, text, i) ==
    IF i > Len(text) THEN <<>>
    ELSE IF MatchAt(p, text, i) THEN <<text[i].n>> \o FindAllFrom(p, text, i + 1)
    ELSE FindAllFrom(p, text, i + 1)

findall(p, text) == FindAllFrom(p, text, 1)

\* as FallbackFrom, with the last bare number taken when no pattern matches
RECURSIVE FallbackBareNumber(_, _)
FallbackBareNumber(p, text) ==
    IF p > PatternCount
    THEN IF SelectSeq(text, IsNumber) # <<>>
         THEN Price(SelectSeq(text, IsNumber)[Len(SelectSeq(text, IsNumber))].n)
         ELSE NoPrice
    ELSE LET matches == findall(p, text)
         IN IF matches # <<>> THEN Price(matches[Len(matches)])
            ELSE FallbackBareNumber(p + 1, text)

\* for pattern in patterns: matches = findall; if matches: return matches[-1]
RECURSIVE FallbackFrom(_, _)
FallbackFrom(p, text) ==
    IF p > PatternCount THEN NoPrice
    ELSE LET matches == findall(p, text)
         IN IF matches # <<>> THEN Price(matches[Len(matches)])
            ELSE FallbackFrom(p + 1, text)

_fallback_extract_price(tr) == FallbackFrom(1, JoinTexts(tr))

\* ---------------------------------------------- extract_negotiated_price
\* "no" in price_str (which covers price_str == "none" and "not" in price_str)
ContainsNo(answer) ==
    \E i \in 1..Len(answer) : answer[i].kind \in {"none", "now"}

IsNum(w) == w.kind = "num"

\* lines 426-443: none-like answers give None, else the first number
ParseAnswer(answer) ==
    IF answer = <<>> \/ ContainsNo(answer) THEN NoPrice
    ELSE LET numbers == SelectSeq(answer, IsNum)
         IN IF numbers # <<>> THEN Price(numbers[1].n) ELSE NoPrice

\* as extract_negotiated_price, without the `if not transcript` return
extract_without_empty_check(tr, hasKey, llm) ==
    IF ~hasKey THEN [path |-> "nokey", result |-> _fallback_extract_price(tr)]
    ELSE IF llm.raised THEN [path |-> "error", result |-> _fallback_extract_price(tr)]
    ELSE [path |-> "llm", result |-> ParseAnswer(llm.answer)]

\* extract_negotiated_price(transcript): the return value and the way taken
\* to it; hasKey is bool(XAI_API_KEY), llm is what the inference call does
\* (without a key no call is made)
extract_negotiated_price(tr, hasKey, llm) ==
    IF tr = <<>> THEN [path |-> "empty", result |-> NoPrice]
    ELSE IF ~hasKey THEN [path |-> "nokey", result |-> _fallback_extract_price(tr)]
    ELSE IF llm.raised THEN [path |-> "error", result |-> _fallback_extract_price(tr)]
    ELSE [path |-> "llm", result |-> ParseAnswer(llm.answer)]

\* a call of extract_negotiated_price(exTranscript)
CallExtract(hasKey, llm) ==
    /\ exPc = "ready"
    /\ exResult' = extract_negotiated_price(exTranscript, hasKey, llm).result
    /\ exPc' = extract_negotiated_price(exTranscript, hasKey, llm).path
    /\ UNCHANGED <<exTranscript, sessionVars, peerVars, jobVars>>

\* a direct call of _fallback_extract_price(exTranscript)
CallFallback ==
    /\ exPc = "ready"
    /\ exResult' = _fallback_extract_price(exTranscript)
    /\ exPc' = "returned"
    /\ UNCHANGED <<exTranscript, sessionVars, peerVars, jobVars>>

\* the caller's transcript list grows by one entry
ExAppend(tok) ==
    /\ exPc = "ready"
    /\ Len(exTranscript) < MaxTurns
    /\ exTranscript' = Append(exTranscript, ExEntry(Len(exTranscript) + 1, tok))
    /\ UNCHANGED <<exResult, exPc, sessionVars, peerVars, jobVars>>

InitExtract ==
    /\ pc = "connect"
    /\ pcTw = "idle"
    /\ pcAi = "idle"
    /\ websocket = "open"
    /\ grok_ws = "unopened"
    /\ stream_sid = None
    /\ provider = NoProvider
    /\ transcript = <<>>
    /\ turnVia = <<>>
    /\ grokSent = <<>>
    /\ twilioSent = <<>>
    /\ twEvents = 0
    /\ aiEvents = 0
    /\ lookupFailed = FALSE
    /\ sinkWrites = <<>>
    /\ outcomes = <<>>
    /\ stopped = FALSE
    /\ heard = {}
    /\ aiIgnored = FALSE
    /\ exTranscript = <<>>
    /\ exResult = NoPrice
    /\ exPc = "ready"
    /\ PeerIdle
    /\ JobsIdle

NextExtract ==
    \/ \E tok \in Tokens : ExAppend(tok)
    \/ CallFallback
    \/ \E llm \in LlmOutcomes : CallExtract(TRUE, llm)
    \/ CallExtract(FALSE, [raised |-> TRUE, answer |-> <<>>])

SpecExtract == InitExtract /\ [][NextExtract]_vars

\* the handler's own steps are taken when they can be (the event loop runs
\* every ready task); what a transport delivers, and when, is up to the peer
FairSpec ==
    /\ Init
    /\ [][Next]_vars
    /\ WF_vars(ConnectOk \/ ConnectFail)
    /\ WF_vars(GatherReturn)
    /\ WF_vars(PostCall)

\* ------------------------------------------- two concurrent call sessions
\* A second invocation of handle_media_stream, running on the same event
\* loop: stream_sid, provider and transcript are locals of the invocation,
\* reached by its two closures through nonlocal.
PeerCanReceive ==
    /\ peer_pcTw = "recv"
    /\ twEvents + aiEvents + peerEvents < MaxEvents

\* as PeerStart, with stream_sid a module-level name shared by all sessions
PeerStartShared(sid, key) ==
    /\ PeerCanReceive
    /\ peerEvents' = peerEvents + 1
    /\ peer_stream_sid' = sid
    /\ stream_sid' = sid
    /\ IF key \in ProviderRows
       THEN peer_provider' = [id |-> key] /\ peer_pcTw' = "recv"
       ELSE peer_provider' = peer_provider /\ peer_pcTw' = "done"
    /\ UNCHANGED <<pc, pcTw, pcAi, websocket, grok_ws, provider, transcript,
                   turnVia, grokSent, twilioSent, twEvents, aiEvents,
                   lookupFailed, sinkWrites, outcomes, stopped,
                   peer_transcript, heard, aiIgnored, extractVars, jobVars>>

\* the second session receives a start event
PeerStart(sid, key) ==
    /\ PeerCanReceive
    /\ peerEvents' = peerEvents + 1
    /\ peer_stream_sid' = sid
    /\ IF key \in ProviderRows
       THEN peer_provider' = [id |-> key] /\ peer_pcTw' = "recv"
       ELSE \* .single().execute() raises: except Exception: pass
            peer_provider' = peer_provider /\ peer_pcTw' = "done"
    /\ UNCHANGED <<peer_transcript, sessionVars, extractVars, jobVars>>

\* the second session receives a completed caller transcription
PeerUserTranscript(text) ==
    /\ twEvents + aiEvents + peerEvents < MaxEvents
    /\ peerEvents' = peerEvents + 1
    /\ peer_transcript' = IF text # ""
                          THEN Append(peer_transcript, Entry("user", text))
                          ELSE peer_transcript
    /\ UNCHANGED <<peer_pcTw, peer_stream_sid, peer_provider, sessionVars,
                   extractVars, jobVars>>

\* the steps of the first session that write or read its three locals,
\* interleaved with those of the second
NextPair ==
    \/ ConnectOk
    \/ \E sid \in StreamSids, key \in ProviderKeys : TwStart(sid, key)
    \/ \E valid \in BOOLEAN : AiAudioDelta(valid)
    \/ \E text \in Texts : AiUserTranscript(text)
    \/ \E text \in Texts : AiTextDone(text)
    \/ \E sid \in StreamSids, key \in ProviderKeys : PeerStart(sid, key)
    \/ \E text \in Texts : PeerUserTranscript(text)

SpecPair == Init /\ [][NextPair]_vars

\* ------------------------------------------------- src/main.py: the jobs
\* str(uuid.uuid4()) yields an id no earlier job has; "j0" is an id that no
\* start_job ever issued
JobIds == {"j1", "j2"}
RequestIds == JobIds \cup {"j0"}
\* request.answers: the question ids answered
AnswerDicts == SUBSET {"q1", "q2"}

\* Job(id=job_id, ..., status=JobStatus.COLLECTING_INFO); clarifications
\* defaults to {}
NewJob(id) == [id |-> id, clarifications |-> {}, status |-> "collecting_info"]

\* jobs_store[id] = job
Put(store, id, job) ==
    [k \in DOMAIN store \cup {id} |-> IF k = id THEN job ELSE store[k]]

\* the rows create_provider inserts for the first n providers found
RECURSIVE Rows(_, _)
Rows(job_id, n) ==
    IF n = 0 THEN <<>> ELSE Append(Rows(job_id, n - 1), [job_id |-> job_id])

\* POST /api/start-job; fails: infer_task or generate_clarifying_questions raised
start_job(id, fails) ==
    /\ jobCalls < MaxCalls
    /\ id \in JobIds \ DOMAIN jobs_store
    /\ jobCalls' = jobCalls + 1
    /\ IF fails
       THEN /\ jobs_store' = jobs_store
            /\ response' = [op |-> "start_job", status |-> 500, job_id |-> None]
       ELSE /\ jobs_store' = Put(jobs_store, id, NewJob(id))
            /\ response' = [op |-> "start_job", status |-> 200, job_id |-> id]
    /\ UNCHANGED <<providerInserts, searches, sessionVars, extractVars, peerVars>>

\* as complete_job, with an unknown job_id creating the job (setdefault)
complete_job_upsert(job_id, answers, searchRaises, found, failAt) ==
    /\ jobCalls < MaxCalls
    /\ failAt <= found
    /\ jobCalls' = jobCalls + 1
    /\ LET job0 == IF job_id \in DOMAIN jobs_store
                   THEN jobs_store[job_id] ELSE NewJob(job_id)
           job1 == [job0 EXCEPT !.clarifications = answers,
                                !.status = "ready_for_search"]
       IN /\ searches' = Append(searches, job_id)
          /\ IF searchRaises
             THEN /\ jobs_store' = Put(jobs_store, job_id, job1)
                  /\ providerInserts' = providerInserts
                  /\ response' = [op |-> "complete_job", status |-> 500, job_id |-> job_id]
             ELSE IF failAt > 0
             THEN /\ jobs_store' = Put(jobs_store, job_id, job1)
                  /\ providerInserts' = providerInserts \o Rows(job_id, failAt - 1)
                  /\ response' = [op |-> "complete_job", status |-> 500, job_id |-> job_id]
             ELSE /\ jobs_store' = Put(jobs_store, job_id,
                                        [job1 EXCEPT !.status = "searched"])
                  /\ providerInserts' = providerInserts \o Rows(job_id, found)
                  /\ response' = [op |-> "complete_job", status |-> 200, job_id |-> job_id]
    /\ UNCHANGED <<sessionVars, extractVars, peerVars>>

\* POST /api/complete-job. searchRaises: await search_providers(job) raised;
\* found: the providers it returned; failAt: the create_provider call that
\* raised (0: none did). The handler awaits once, in search_providers; the
\* steps before and after it are taken here as one.
complete_job(job_id, answers, searchRaises, found, failAt) ==
    /\ jobCalls < MaxCalls
    /\ failAt <= found
    /\ jobCalls' = jobCalls + 1
    /\ IF job_id \notin DOMAIN jobs_store
       THEN \* job = jobs_store.get(job_id); if not job: raise HTTPException(404)
            /\ response' = [op |-> "complete_job", status |-> 404, job_id |-> job_id]
            /\ UNCHANGED <<jobs_store, providerInserts, searches>>
       ELSE LET job1 == [jobs_store[job_id] EXCEPT !.clarifications = answers,
                                                   !.status = "ready_for_search"]
            IN /\ searches' = Append(searches, job_id)
               /\ IF searchRaises
                  THEN /\ jobs_store' = Put(jobs_store, job_id, job1)
                       /\ providerInserts' = providerInserts
                       /\ response' = [op |-> "complete_job", status |-> 500, job_id |-> job_id]
                  ELSE IF failAt > 0
                  THEN /\ jobs_store' = Put(jobs_store, job_id, job1)
                       /\ providerInserts' = providerInserts \o Rows(job_id, failAt - 1)
                       /\ response' = [op |-> "complete_job", status |-> 500, job_id |-> job_id]
                  ELSE /\ jobs_store' = Put(jobs_store, job_id,
                                             [job1 EXCEPT !.status = "searched"])
                       /\ providerInserts' = providerInserts \o Rows(job_id, found)
                       /\ response' = [op |-> "complete_job", status |-> 200, job_id |-> job_id]
    /\ UNCHANGED <<sessionVars, extractVars, peerVars>>

NextJobs ==
    \/ \E id \in JobIds, fails \in BOOLEAN : start_job(id, fails)
    \/ \E job_id \in RequestIds, answers \in AnswerDicts, searchRaises \in BOOLEAN,
          found \in 0..MaxFound, failAt \in 0..MaxFound :
          complete_job(job_id, answers, searchRaises, found, failAt)

SpecJobs == Init /\ [][NextJobs]_vars

\* ================================================================ claims
IsAppend(m) == m.type = "input_audio_buffer.append"

Terminated == pc \in {"done", "raised"}

LoopExited == pcTw = "done" \/ pcAi = "done"

\* C1: while no start event has bound stream_sid, no media frame has been
\* sent to the AI engine as input_audio_buffer.append and no AI audio has been
\* sent to the telephony socket.
C1_NoFrameBeforeStart ==
    stream_sid = None =>
        /\ \A i \in 1..Len(grokSent) : ~IsAppend(grokSent[i])
        /\ twilioSent = <<>>

\* C2: when the handler has completed, exactly one post-call report has been
\* written to the Persistence Sink.
C2_ReportExactlyOnce ==
    pc = "done" => Len(sinkWrites) = 1

\* C3: no two assistant turns of the transcript carry the same text when they
\* were appended by two differently shaped completion events.
C3_UtteranceOnce ==
    \A i, j \in 1..Len(transcript) :
        (/\ i < j
         /\ transcript[i].role = "assistant"
         /\ transcript[j].role = "assistant"
         /\ turnVia[i] # turnVia[j])
        => transcript[i].text # transcript[j].text

\* C4: a step that handles a frame whose decoding or resampling fails leaves
\* the relay loop that received it running.
C4_BadFrameKeepsLoop ==
    [][/\ TwMedia(FALSE) /\ grok_ws = "open" => pcTw' = "recv"
       /\ AiAudioDelta(FALSE) => pcAi' = "recv"]_vars

\* C5: once either relay loop has exited, the session reaches its post-call
\* step, whatever the surviving transport does or does not deliver.
C5_ExitLeadsToPostCall ==
    LoopExited ~> (pc \in {"postcall", "done", "raised"})

\* C6: once either relay loop has exited, nothing more is sent to the AI
\* engine or to the telephony socket and no turn is appended.
C6_NothingAfterClosing ==
    [][LoopExited =>
          /\ grokSent' = grokSent
          /\ twilioSent' = twilioSent
          /\ transcript' = transcript]_vars

\* C7: when the handler has completed, exactly one NegotiationOutcome has
\* been produced, and none is produced while a relay loop is running.
C7_OutcomeExactlyOnce ==
    /\ pc = "done" => Len(outcomes) = 1
    /\ (pcTw = "recv" \/ pcAi = "recv") => outcomes = <<>>

\* C8: if the context lookup of a start event has failed, no connection to
\* the AI engine has been opened.
C8_LookupFailureNoAiConnection ==
    lookupFailed => grok_ws = "unopened"

\* C9: a session that ended after a setup failure (context not found, or the
\* AI connection not opened) has reported a failure status with an empty
\* transcript and no price.
SetupFailed == lookupFailed \/ (pc = "raised" /\ grok_ws = "unopened")

FailureReport == [status |-> "failed", transcript |-> <<>>, price |-> NoPrice]

C9_SetupFailureReported ==
    (Terminated /\ SetupFailed) => sinkWrites = <<FailureReport>>

\* C10: whenever some pattern matches the joined text, the fallback extractor
\* returns the price mentioned latest in the text among the matches of all
\* patterns.
MatchPositions(text) ==
    {i \in 1..Len(text) : \E p \in 1..PatternCount : MatchAt(p, text, i)}

LastMention(text) ==
    LET last == CHOOSE i \in MatchPositions(text) :
                    \A k \in MatchPositions(text) : k <= i
    IN Price(text[last].n)

C10_LastAcrossPatterns ==
    (exPc = "returned" /\ MatchPositions(JoinTexts(exTranscript)) # {})
        => exResult = LastMention(JoinTexts(exTranscript))

\* C11: turns are kept in arrival order: every step leaves the turns already
\* recorded at their positions (the sequence number enumerate(transcript, 1)
\* prints) and puts the new turns after them, so a sequence number never
\* repeats or goes backward.
C11_ArrivalOrder ==
    [][/\ Len(transcript') >= Len(transcript)
       /\ SubSeq(transcript', 1, Len(transcript)) = transcript]_vars

\* a caller turn and an AI turn of different event shapes, interleaved
C11_Witness ==
    /\ Len(transcript) = 3
    /\ transcript[1].role = "assistant"
    /\ transcript[2].role = "user"
    /\ turnVia[3] = "conversation.item.created"

\* C12: once a start event has bound stream_sid no later event changes it, and
\* every media frame sent to the telephony socket carries that value.
C12_StreamSidBoundOnce ==
    [][stream_sid # None =>
          /\ stream_sid' = stream_sid
          /\ \A i \in 1..Len(twilioSent') : twilioSent'[i].streamSid = stream_sid]_vars

\* C13: when the inference call raises, extract_negotiated_price reports
\* extraction-failed, an outcome without a price.
C13_InferenceErrorNoPrice ==
    exPc = "error" => exResult = NoPrice

\* C14: for an empty transcript extract_negotiated_price returns no price by
\* its first return, with neither the inference call nor the fallback run.
C14_EmptyTranscript ==
    (exPc \in {"empty", "nokey", "llm", "error"} /\ exTranscript = <<>>)
        => (exPc = "empty" /\ exResult = NoPrice)

C14_Witness ==
    exPc = "empty" /\ exTranscript = <<>> /\ exResult = NoPrice

\* C15: a telephony stop event ends the stream as a socket close does: the
\* telephony-to-AI relay loop exits, so once a stop event has been received no
\* further input_audio_buffer.append is sent to the AI engine.
C15_StopEndsStream ==
    [][stopped => SelectSeq(grokSent', IsAppend) = SelectSeq(grokSent, IsAppend)]_vars

C17_UnknownJobNotFound ==
    [][(/\ jobCalls' # jobCalls
        /\ response'.op = "complete_job"
        /\ response'.job_id \notin DOMAIN jobs_store)
       => (/\ response'.status = 404
           /\ UNCHANGED <<jobs_store, providerInserts, searches>>)]_vars

C17_Witness ==
    /\ response.op = "complete_job"
    /\ response.status = 404
    /\ response.job_id = "j2"
    /\ DOMAIN jobs_store = {"j1"}

\* C18: each direction's resampler state persists across the frames of one
\* call: from the second frame of a direction on, the rate conversion is
\* never given the initial state again.
C18_ResamplerStatePersists ==
    /\ \A i \in 2..Len(SelectSeq(grokSent, IsAppend)) :
          SelectSeq(grokSent, IsAppend)[i].body.state # None
    /\ \A i \in 2..Len(twilioSent) : twilioSent[i].payload.state # None

\* C19: within one direction frames are forwarded in arrival order, none
\* twice: the frames sent to the AI engine, and those sent to the telephony
\* socket, appear in strictly increasing order of arrival.
C19_FramesInArrivalOrder ==
    /\ \A i, j \in 1..Len(SelectSeq(grokSent, IsAppend)) :
          i < j => SelectSeq(grokSent, IsAppend)[i].body.id
                   < SelectSeq(grokSent, IsAppend)[j].body.id
    /\ \A i, j \in 1..Len(twilioSent) :
          i < j => twilioSent[i].payload.id < twilioSent[j].payload.id

C19_Witness ==
    /\ Len(SelectSeq(grokSent, IsAppend)) = 2
    /\ Len(twilioSent) = 0
    /\ twEvents = 3

\* C20: the configuration handshake is sent before any audio of the same
\* session: every input_audio_buffer.append sent to the AI engine comes after
\* a session.update.
C20_HandshakeBeforeAudio ==
    \A i \in 1..Len(grokSent) :
        IsAppend(grokSent[i]) =>
            \E j \in 1..(i - 1) : grokSent[j].type = "session.update"

\* C21: every transcript-completion event shape is recognized: a completed
\* caller transcription with non-empty text appends a caller turn, and each
\* of response.audio_transcript.done, response.text.done, a message item of
\* response.done and an assistant item of conversation.item.created leaves
\* an assistant turn with each of its non-empty texts in the transcript.
C21_CompletionShapesRecognized ==
    /\ [](\A turn \in heard : \E i \in 1..Len(transcript) : transcript[i] = turn)
    /\ [][\A text \in Texts \ {""} :
             AiUserTranscript(text)
                => transcript' = Append(transcript, Entry("user", text))]_vars

C21_Witness ==
    /\ Len(transcript) = 3
    /\ Cardinality(heard) = 3
    /\ turnVia[1] = "conversation.item.input_audio_transcription.completed"
    /\ turnVia[2] = "response.done"
    /\ turnVia[3] = "response.audio_transcript.done"

\* C22: an AI-engine event of an unrecognized kind, or an interim transcript
\* delta, is ignored: the step that receives it leaves the transcript and the
\* stream identifier unchanged, sends nothing to the telephony socket and
\* does not end the AI-to-telephony relay loop.
C22_UnknownEventIgnored ==
    [][(\E eventType \in {"response.audio_transcript.delta", "unknown"} :
           AiOther(eventType))
       => (/\ UNCHANGED <<transcript, stream_sid, twilioSent>>
           /\ pcAi' = "recv")]_vars

C22_Witness ==
    /\ aiIgnored
    /\ aiEvents = 2
    /\ pcAi = "recv"
    /\ transcript # <<>>
    /\ stream_sid # None

\* C23: in the primary strategy an answer that is empty or none-like gives
\* no-agreement, and every other answer that contains a numeric token gives
\* the first numeric token of the answer as the agreed price.
NoneLike(answer) ==
    answer = <<>> \/ \E i \in 1..Len(answer) : answer[i].kind = "none"

FirstNumber(answer) == Price(SelectSeq(answer, IsNum)[1].n)

C23_PrimaryStrategy ==
    [][\A llm \in LlmOutcomes :
          (~llm.raised /\ exTranscript # <<>> /\ CallExtract(TRUE, llm))
             => /\ NoneLike(llm.answer) => exResult' = NoPrice
                /\ (~NoneLike(llm.answer) /\ SelectSeq(llm.answer, IsNum) # <<>>)
                      => exResult' = FirstNumber(llm.answer)]_vars

\* C24: the fallback extractor returns no price for every transcript whose
\* text matches none of its patterns, in particular for every transcript
\* with no numeric mention.
C24_NoMatchNoPrice ==
    (/\ exPc \in {"returned", "nokey", "error"}
     /\ MatchPositions(JoinTexts(exTranscript)) = {})
        => exResult = NoPrice

C24_Witness ==
    /\ exPc = "returned"
    /\ Len(exTranscript) = 3
    /\ SelectSeq(JoinTexts(exTranscript), IsNumber) # <<>>
    /\ MatchPositions(JoinTexts(exTranscript)) = {}
    /\ exResult = NoPrice

\* C25: the negotiation context is immutable once fetched: after a start
\* event has fetched it, no later step replaces or modifies it.
C25_ContextImmutable ==
    [][provider # NoProvider => provider' = provider]_vars

\* C26: the post-call section completes without raising in every execution
\* in which both relay loops have exited, the provider context being bound
\* or not.
C26_PostCallCompletes ==
    (pcTw = "done" /\ pcAi = "done" /\ Terminated) => pc = "done"

\* C27: the configuration handshake is sent to the AI engine at most once
\* per session, however many start events the telephony socket delivers.
IsHandshake(m) == m.type = "session.update"

C27_HandshakeAtMostOnce ==
    Len(SelectSeq(grokSent, IsHandshake)) <= 1

\* C28: if both the telephony socket and the AI-engine socket have closed,
\* handle_media_stream terminates: both relay loops exit, the gather
\* returns, the AI connection is closed and the post-call section is run.
C28_BothClosedTerminates ==
    (websocket = "closed" /\ grok_ws = "closed")
        ~> (pcTw = "done" /\ pcAi = "done" /\ grok_ws = "closed" /\ Terminated)

C28_Witness ==
    /\ websocket = "closed"
    /\ grok_ws = "closed"
    /\ transcript # <<>>
    /\ twEvents > 0
    /\ pc = "done"

\* C29: the status of a job in jobs_store only moves forward along
\* collecting_info -> ready_for_search -> searched: a job that has reached
\* searched never returns to an earlier status.
StatusRank(status) ==
    CASE status = "collecting_info" -> 1
      [] status = "ready_for_search" -> 2
      [] status = "searched" -> 3

C30_FailedCompleteLeavesJob ==
    [][(/\ jobCalls' # jobCalls
        /\ response'.op = "complete_job"
        /\ response'.status = 500)
       => jobs_store' = jobs_store]_vars

====
